---- MODULE Spec2Model ----
(***************************************************************************)
(* Safe Wallet Monitor (packages/safe-wallet-monitor): the aggregation and *)
(* formatting pipeline of monitorSafeWalletQueue.                          *)
(*                                                                         *)
(* Strings the code inspects character by character (addresses, handles,   *)
(* placeholder owners) are sequences of one-character strings, so that     *)
(* toLowerCase, slice and concatenation are computed, not assumed.         *)
(* An optional value (note?, missingSigners?, SafeInfo | null) is a        *)
(* sequence of length at most one: <<>> is undefined/null, <<v>> is v.     *)
(* A note is an opaque string.                                             *)
(* A FormatOptions field is "true", "false" or "unset" (the key is absent  *)
(* from the object).                                                       *)
(***************************************************************************)
EXTENDS Integers, Sequences, FiniteSets, TLC

VARIABLES
  pc,               \* position of the control flow of the current call
  safes,            \* config.safes
  signers,          \* config.signers
  formatOptions,    \* config.formatOptions
  notifications,    \* config.notifications
  debug,            \* config.debug
  queue,            \* the wallets in processing order (safesByChain, flattened)
  idx,              \* index in queue of the wallet being processed
  txReq,            \* the queued-transaction request: "none", "pending", "done"
  infoReq,          \* the ownership request: "none", "pending", "done"
  fetchedTransactions, \* const transactions of the current wallet
  fetchedSafeInfo,  \* const safeInfo of the current wallet
  noteIdx,          \* index of the transaction whose note is awaited, 0 if none
  inFlight,         \* the network requests issued and not yet answered
  outcomes,         \* per processed wallet, what its requests answered
  requestLog,       \* the network requests issued so far, in order
  rawData,          \* QueuedTransactionData[]: the aggregator's results / the formatter's data
  totalTransactions,
  messages,         \* messages of formatTransactionData
  signerSummary,    \* signerSummary of formatTransactionData, in insertion order
  channels,         \* per notification config, the state of its delivery
  errors,           \* const errors of sendNotifications: the failed channels
  dispatched,       \* the message sendNotifications was called with, if it was
  received,         \* per notification config, the message its sender was called with
  posted,           \* the requests the senders have made (axios.post), in order
  diagnostics       \* the number of lines logged under `if (debug)` so far

configVars == <<safes, signers, formatOptions, notifications, debug>>

walletVars == <<txReq, infoReq, fetchedTransactions, fetchedSafeInfo, noteIdx, inFlight>>

fetchVars == <<queue, idx, walletVars, outcomes, requestLog>>

resultVars == <<totalTransactions, messages, signerSummary>>

notifyVars == <<channels, errors, dispatched, received, posted>>

vars == <<pc, configVars, fetchVars, rawData, resultVars, notifyVars, diagnostics>>

----------------------------------------------------------------------------
(* Bounds *)

MaxRequired == 10

MaxSafes == 2

----------------------------------------------------------------------------
(* Strings *)

None == <<>>

Some(v) == <<v>>

UpperAlphabet == <<"A","B","C","D","E","F","G","H","I","J","K","L","M",
                   "N","O","P","Q","R","S","T","U","V","W","X","Y","Z">>

LowerAlphabet == <<"a","b","c","d","e","f","g","h","i","j","k","l","m",
                   "n","o","p","q","r","s","t","u","v","w","x","y","z">>

\* The lower-case letter of each upper-case letter
LowerOf ==
  [c \in {UpperAlphabet[i] : i \in 1..26} |->
     LowerAlphabet[CHOOSE i \in 1..26 : UpperAlphabet[i] = c]]

LowerChar(c) == IF c \in DOMAIN LowerOf THEN LowerOf[c] ELSE c

\* String.prototype.toLowerCase
toLowerCase(s) == [i \in 1..Len(s) |-> LowerChar(s[i])]

\* Array.prototype.includes on an array of strings
includes(list, x) == \E i \in 1..Len(list) : list[i] = x

\* Array.prototype.filter, keeping the order
filter(list, keep(_)) == SelectSeq(list, keep)

\* Array.prototype.map
map(list, f(_)) == [i \in 1..Len(list) |-> f(list[i])]

\* The elements of an array, as a set
Elems(list) == {list[i] : i \in 1..Len(list)}

----------------------------------------------------------------------------
(* safe-api.ts: pure helpers *)

compareAddresses(address1, address2) == toLowerCase(address1) = toLowerCase(address2)

Ellipsis == <<".", ".", ".">>

\* Every address cut to its ends, the short ones too
shortenAddressAlways(address) ==
  SubSeq(address, 1, 6) \o Ellipsis \o SubSeq(address, Len(address) - 3, Len(address))

\* address.slice(0, 6) + '...' + address.slice(-4), verbatim below 10 characters
shortenAddress(address) ==
  IF Len(address) < 10 THEN address
  ELSE SubSeq(address, 1, 6) \o Ellipsis \o SubSeq(address, Len(address) - 3, Len(address))

\* chain === 'mainnet' ? 'eth' : chain, then the address
generateSafeUrl(safeAddress, chain) ==
  [chainPrefix |-> IF chain = "mainnet" THEN "eth" ELSE chain, safe |-> safeAddress]

----------------------------------------------------------------------------
(* index.ts: the status resolver and the formatter *)

\* signers.find(s => compareAddresses(s.address, address)): the first match
getSignerHandle(address, signerList, prefix) ==
  IF \E i \in 1..Len(signerList) : compareAddresses(signerList[i].address, address)
  THEN LET first == CHOOSE i \in 1..Len(signerList) :
                      /\ compareAddresses(signerList[i].address, address)
                      /\ \A j \in 1..(i - 1) : ~compareAddresses(signerList[j].address, address)
       IN prefix \o signerList[first].handle
  ELSE shortenAddress(address)

IconReady == "medal"          \* confirmed >= required
IconPartial == "memo"         \* confirmed >= ceil(required * 0.7)
IconAttention == "warning"    \* otherwise
NoIcon == ""

\* Math.ceil(required * 0.7) in double arithmetic.  The double nearest 0.7 lies
\* below 0.7 by less than 2^-54, so for an integer 0 <= required < 2^31 the
\* exact product lies below 7*required/10 by less than 2^-23.  Rounding to a
\* double is monotone and every integer in range is a double: when
\* 7*required/10 is an integer k the result is in (k-1, k]; otherwise
\* 7*required/10 is at least 1/10 away from an integer and the result stays
\* between the same two integers.  Either way the ceiling is the exact one.
\* Math.floor in place of Math.ceil
FloorSeventyPercent(required) == (7 * required) \div 10

CeilSeventyPercent(required) == (7 * required + 9) \div 10

getStatusIcon(confirmed, required) ==
  IF confirmed >= required THEN IconReady
  ELSE IF confirmed >= CeilSeventyPercent(required) THEN IconPartial
  ELSE IconAttention

getChainIcon(chain) ==
  CASE chain = "mainnet" -> "black-circle"
    [] chain = "arbitrum" -> "blue-circle"
    [] chain = "optimism" -> "red-circle"
    [] chain = "polygon" -> "purple-circle"
    [] chain = "gnosis" -> "green-circle"
    [] chain = "base" -> "white-circle"
    [] chain = "avalanche" -> "red-triangle"
    [] chain = "zkevm" -> "purple-square"
    [] OTHER -> "question-mark"

\* chain.toUpperCase() on the chain names
chainToUpperCase(chain) ==
  CASE chain = "mainnet" -> "MAINNET"
    [] chain = "arbitrum" -> "ARBITRUM"
    [] chain = "optimism" -> "OPTIMISM"
    [] chain = "polygon" -> "POLYGON"
    [] chain = "gnosis" -> "GNOSIS"
    [] chain = "base" -> "BASE"
    [] chain = "avalanche" -> "AVALANCHE"
    [] chain = "zkevm" -> "ZKEVM"
    [] OTHER -> chain

\* The truthiness of options.x: an absent key reads undefined
Truthy(v) == v = "true"

\* transaction.missingSigners && transaction.missingSigners.length > 0
HasMissingSigners(transaction) ==
  /\ transaction.missingSigners # None
  /\ Len(transaction.missingSigners[1]) > 0

\* const signedAddresses = transaction.confirmations.map(c => c.owner.toLowerCase())
SignedAddresses(transaction) ==
  [i \in 1..Len(transaction.confirmations) |-> toLowerCase(transaction.confirmations[i].owner)]

\* The missing signers compared as written, without toLowerCase
MissingSignersAsWritten(transaction) == transaction.missingSigners[1]

\* const missingSignersLower = transaction.missingSigners.map(addr => addr.toLowerCase())
MissingSignersLower(transaction) ==
  [i \in 1..Len(transaction.missingSigners[1]) |-> toLowerCase(transaction.missingSigners[1][i])]

\* The owner compared as written, without toLowerCase
IsNotSignedOwnerCaseSensitive(transaction, owner) ==
  ~includes(SignedAddresses(transaction), owner)

\* The owner test of the filter that builds notSigned on the confirmation path
IsNotSignedOwner(transaction, owner) ==
  ~includes(SignedAddresses(transaction), toLowerCase(owner))

\* notSigned filtered from the owners on the missing-signer path too
SignerSetsOwnersOnly(transaction, safeOwners) ==
  LET lower == IF transaction.missingSigners = None THEN <<>>
               ELSE map(transaction.missingSigners[1], toLowerCase)
      isSigned(owner) == IF lower # <<>> THEN ~includes(lower, toLowerCase(owner))
                         ELSE includes(SignedAddresses(transaction), toLowerCase(owner))
      isNotSigned(owner) == ~isSigned(owner)
  IN [signed |-> filter(safeOwners, isSigned),
      notSigned |-> filter(safeOwners, isNotSigned)]

\* let signed / let notSigned of formatTransactionMessage
SignerSets(transaction, safeOwners) ==
  IF HasMissingSigners(transaction)
  THEN LET inMissing(owner) == ~includes(MissingSignersLower(transaction), toLowerCase(owner))
       IN [signed |-> filter(safeOwners, inMissing),
           notSigned |-> transaction.missingSigners[1]]
  ELSE LET isSigned(owner) == includes(SignedAddresses(transaction), toLowerCase(owner))
           isNotSigned(owner) == IsNotSignedOwner(transaction, owner)
       IN [signed |-> filter(safeOwners, isSigned),
           notSigned |-> filter(safeOwners, isNotSigned)]

\* addSignerLine: the names of a non-empty list, no line for an empty one
SignerLine(signerList, signerInfos) ==
  IF Len(signerList) > 0
  THEN LET name(addr) == getSignerHandle(addr, signerInfos, <<>>)
       IN Some(map(signerList, name))
  ELSE None

\* The signer lines computed without looking at safeOwners.length
ShowsSignersWithoutOwners(safeOwners, options) ==
  Truthy(options.showConfirmedSigner) \/ Truthy(options.showPendingSigner)

\* The condition under which the signer lines are computed at all
ShowsSigners(safeOwners, options) ==
  /\ Truthy(options.showConfirmedSigner) \/ Truthy(options.showPendingSigner)
  /\ Len(safeOwners) > 0

\* The header's counts taken from the signer lists: the confirmations that
\* the required count leaves once the missing signers are taken off
HeaderCountsFromMissing(transaction) ==
  [confirmed |-> IF transaction.missingSigners = None THEN Len(transaction.confirmations)
                 ELSE transaction.confirmationsRequired - Len(transaction.missingSigners[1]),
   required |-> transaction.confirmationsRequired]

\* const { signedCount: confirmed, confirmationsRequired: required, ... } = transaction
HeaderCounts(transaction) ==
  [confirmed |-> transaction.signedCount, required |-> transaction.confirmationsRequired]

\* One transaction's block.  The string is kept as its parts: the header
\* `${chainIcon} ${chainName} - Tx ${nonce} ${statusIcon} ${confirmed}/${required}`,
\* the note line, the Signed line and the Not Signed line (each None when the
\* code appends no such line).
formatTransactionMessage(transaction, chain, safeOwners, signerInfos, options) ==
  LET sets == SignerSets(transaction, safeOwners)
      shows == ShowsSigners(safeOwners, options)
      counts == HeaderCounts(transaction)
  IN [kind |-> "transaction",
      chainIcon |-> IF Truthy(options.showChainIcon) THEN getChainIcon(chain) ELSE NoIcon,
      chainName |-> chainToUpperCase(chain),
      nonce |-> transaction.nonce,
      statusIcon |-> IF Truthy(options.showStatusIcon)
                     THEN getStatusIcon(counts.confirmed, counts.required)
                     ELSE NoIcon,
      confirmed |-> counts.confirmed,
      required |-> counts.required,
      noteLine |-> IF Truthy(options.showTxNote) /\ transaction.note # None
                                                 /\ transaction.note[1] # ""
                   THEN transaction.note ELSE None,
      signedLine |-> IF shows /\ Truthy(options.showConfirmedSigner)
                     THEN SignerLine(sets.signed, signerInfos) ELSE None,
      notSignedLine |-> IF shows /\ Truthy(options.showPendingSigner)
                        THEN SignerLine(sets.notSigned, signerInfos) ELSE None]

\* The Safe URL line pushed before the blocks
WalletMessagesUrlFirst(walletData, signerInfos, options) ==
  LET safeOwners == IF walletData.safeInfo = None THEN <<>>
                    ELSE walletData.safeInfo[1].owners
      block(tx) == formatTransactionMessage(tx, walletData.chain, safeOwners,
                                            signerInfos, options)
  IN <<[kind |-> "safeUrl", safeUrl |-> walletData.safeUrl]>>
       \o map(walletData.transactions, block)

\* The lines formatTransactionData pushes for one QueuedTransactionData:
\* its transactions' blocks, then the Safe URL line
WalletMessages(walletData, signerInfos, options) ==
  LET safeOwners == IF walletData.safeInfo = None THEN <<>>
                    ELSE walletData.safeInfo[1].owners
      block(tx) == formatTransactionMessage(tx, walletData.chain, safeOwners,
                                            signerInfos, options)
  IN map(walletData.transactions, block)
       \o <<[kind |-> "safeUrl", safeUrl |-> walletData.safeUrl]>>

RECURSIVE DataMessages(_, _, _)
DataMessages(data, signerInfos, options) ==
  IF data = <<>> THEN <<>>
  ELSE WalletMessages(Head(data), signerInfos, options)
         \o DataMessages(Tail(data), signerInfos, options)

\* for (const signerAddress of tx.missingSigners): the addresses one transaction
\* contributes to the tally, normalized
TransactionMissing(tx) ==
  IF tx.missingSigners = None THEN <<>>
  ELSE map(tx.missingSigners[1], toLowerCase)

RECURSIVE TransactionsMissing(_)
TransactionsMissing(transactions) ==
  IF transactions = <<>> THEN <<>>
  ELSE TransactionMissing(Head(transactions)) \o TransactionsMissing(Tail(transactions))

RECURSIVE DataMissing(_)
DataMissing(data) ==
  IF data = <<>> THEN <<>>
  ELSE TransactionsMissing(Head(data).transactions) \o DataMissing(Tail(data))

\* signerSummary[normalizedAddress] = (signerSummary[normalizedAddress] || 0) + 1
\* on an object whose keys keep their insertion order
CountSigner(summary, normalizedAddress) ==
  IF \E i \in 1..Len(summary) : summary[i].address = normalizedAddress
  THEN [i \in 1..Len(summary) |->
          IF summary[i].address = normalizedAddress
          THEN [summary[i] EXCEPT !.count = @ + 1]
          ELSE summary[i]]
  ELSE Append(summary, [address |-> normalizedAddress, count |-> 1])

RECURSIVE Tally(_, _)
Tally(summary, addresses) ==
  IF addresses = <<>> THEN summary
  ELSE Tally(CountSigner(summary, Head(addresses)), Tail(addresses))

\* signerSummary kept from one call to the next instead of starting empty
SignerSummaryKept(data) == Tally(signerSummary, DataMissing(data))

\* The tally taken over the wallets whose ownership data is present
SignerSummaryOfKnownOwners(data) ==
  LET known(walletData) == walletData.safeInfo # None
  IN Tally(<<>>, DataMissing(filter(data, known)))

\* const signerSummary = {} and the counting loop over the data
SignerSummaryOf(data) == Tally(<<>>, DataMissing(data))

\* `   - ${signerName}: ${count} signature${count > 1 ? 's' : ''} needed`
SummaryLine(entry, signerInfos) ==
  [kind |-> "summary",
   signerName |-> getSignerHandle(entry.address, signerInfos, <<"@">>),
   count |-> entry.count,
   plural |-> entry.count > 1]

EndLine == [kind |-> "end"]

formatTransactionData(data, signerInfos, options) ==
  LET summary == SignerSummaryOf(data)
      line(entry) == SummaryLine(entry, signerInfos)
  IN [messages |-> DataMessages(data, signerInfos, options)
                     \o map(summary, line) \o <<EndLine>>,
      signerSummary |-> summary]

----------------------------------------------------------------------------
(* Values the inputs are drawn from *)

\* Three owner addresses in checksummed (mixed-case) form, and an address
\* that owns nothing
AddrA == <<"0","x","A","a","1","1","1","1","1","1","1","A">>
AddrB == <<"0","x","B","b","2","2","2","2","2","2","2","B">>
AddrC == <<"0","x","C","c","3","3","3","3","3","3","3","C">>
AddrD == <<"0","x","D","d","4","4","4","4","4","4","4","D">>

Safe1 == <<"0","x","b","e","2","A","B","3","d","3","9","9">>
Safe2 == <<"0","x","4","F","F","1","b","9","D","9","7","1">>

Digit(n) == <<"0","1","2","3","4","5","6","7","8","9">>[n + 1]

RECURSIVE DecimalString(_)
DecimalString(n) ==
  IF n < 10 THEN <<Digit(n)>> ELSE DecimalString(n \div 10) \o <<Digit(n % 10)>>

Alice == <<"A","l","i","c","e">>
Bob == <<"B","o","b">>
Bobby == <<"B","o","b","b","y">>

OptionValues == {"true", "false", "unset"}

\* Every FormatOptions object: each key true, false or absent
AllFormatOptions ==
  [showConfirmedSigner : OptionValues, showPendingSigner : OptionValues,
   showStatusIcon : OptionValues, showChainIcon : OptionValues,
   showTxNote : OptionValues]

SignerLists ==
  { <<>>,
    <<[address |-> toLowerCase(AddrB), handle |-> Bob],
      [address |-> AddrB, handle |-> Bobby],
      [address |-> AddrA, handle |-> Alice]>> }

\* A QueuedSafeTransaction
Transaction(nonce, signedCount, required, owners, missing, note) ==
  [nonce |-> nonce,
   signedCount |-> signedCount,
   confirmationsRequired |-> required,
   confirmations |-> [i \in 1..Len(owners) |-> [owner |-> owners[i]]],
   missingSigners |-> missing,
   id |-> "multisig",
   note |-> note,
   safe |-> Safe1]

\* A QueuedTransactionData
WalletData(chain, address, transactions, safeInfo) ==
  [chain |-> chain, address |-> address, transactions |-> transactions,
   safeInfo |-> safeInfo, safeUrl |-> generateSafeUrl(address, chain)]

SafeInfoOf(owners) == Some([owners |-> owners, threshold |-> 3])

\* Inputs of the formatter, in three families.
\* (1) every count against every threshold, up to one past it
CountData ==
  { <<WalletData("mainnet", Safe1,
        <<Transaction(42, c, t, <<>>, Some(<<>>), None)>>,
        SafeInfoOf(<<AddrA, AddrB, AddrC>>))>>
    : c \in 0..(MaxRequired + 1), t \in 0..MaxRequired }

ConfirmationLists ==
  { <<>>, <<AddrA>>, <<toLowerCase(AddrA), AddrB, <<"s","i","g","n","e","d","_","0">>>>,
    <<AddrD>> }

MissingSignerLists ==
  { None, Some(<<>>), Some(<<AddrB, AddrC>>), Some(<<toLowerCase(AddrB), AddrB>>),
    Some(<<AddrC, AddrD>>) }

SafeInfos ==
  { None, SafeInfoOf(<<>>), SafeInfoOf(<<AddrA, AddrB, AddrC>>),
    SafeInfoOf(<<toLowerCase(AddrA), AddrA, AddrB>>) }

\* (2) one transaction, every confirmation list against every missing-signer
\*     list and every owner list
PartitionData ==
  { <<WalletData("base", Safe2,
        <<Transaction(15, 1, 3, conf, missing, None)>>, info)>>
    : conf \in ConfirmationLists, missing \in MissingSignerLists, info \in SafeInfos }

SummaryWallets ==
  { WalletData("mainnet", Safe1,
      <<Transaction(42, 3, 3, <<AddrA, AddrB, AddrC>>, Some(<<>>), Some("memo"))>>,
      SafeInfoOf(<<AddrA, AddrB, AddrC>>)),
    WalletData("base", Safe2,
      <<Transaction(15, 1, 3, <<>>, Some(<<AddrB, AddrC>>), None),
        Transaction(16, 2, 3, <<>>, Some(<<toLowerCase(AddrB)>>), Some(""))>>,
      None),
    WalletData("mainnet", Safe2,
      <<Transaction(7, 1, 2, <<>>, Some(<<AddrC, AddrC>>), None)>>,
      SafeInfoOf(<<AddrB, AddrC>>)) }

\* (3) no wallet, one wallet or two, with several transactions
SummaryData ==
  {<<>>} \cup { <<w>> : w \in SummaryWallets }
         \cup { <<v, w>> : v \in SummaryWallets, w \in SummaryWallets }

\* An address of 9 characters and one of 10
NineAddr == <<"0","x","5","e","E","5","5","5","E">>
TenAddr == <<"0","x","6","f","F","6","6","6","6","F">>

\* (4) addresses at the length where shortening begins, as owners and as
\*     missing signers
ShortAddressData ==
  { <<WalletData("mainnet", Safe1,
        <<Transaction(9, 1, 3, <<>>, missing, None)>>,
        SafeInfoOf(<<NineAddr, AddrB, TenAddr>>))>>
    : missing \in { Some(<<>>), Some(<<TenAddr, NineAddr>>) } }

FormatData == CountData \cup PartitionData \cup SummaryData \cup ShortAddressData

----------------------------------------------------------------------------
(* formatTransactionData called on its own: the exported pure function,    *)
(* applied to data its caller supplies.                                    *)

FormatInit ==
  /\ pc = "formatter"
  /\ safes = <<>>
  /\ signers \in SignerLists
  /\ formatOptions \in AllFormatOptions
  /\ notifications = <<>>
  /\ debug = FALSE
  /\ queue = <<>>
  /\ idx = 0
  /\ txReq = "none"
  /\ infoReq = "none"
  /\ fetchedTransactions = <<>>
  /\ fetchedSafeInfo = None
  /\ noteIdx = 0
  /\ inFlight = {}
  /\ outcomes = <<>>
  /\ requestLog = <<>>
  /\ rawData = <<>>
  /\ totalTransactions = 0
  /\ messages = <<>>
  /\ signerSummary = <<>>
  /\ channels = <<>>
  /\ errors = <<>>
  /\ dispatched = None
  /\ received = <<>>
  /\ posted = <<>>
  /\ diagnostics = 0

FormatCall ==
  /\ pc = "formatter"
  /\ \E data \in FormatData :
       LET formatted == formatTransactionData(data, signers, formatOptions)
       IN /\ rawData' = data
          /\ messages' = formatted.messages
          /\ signerSummary' = formatted.signerSummary
  /\ pc' = "formatted"
  /\ UNCHANGED <<configVars, fetchVars, totalTransactions, notifyVars, diagnostics>>

\* The same call once more: the data the first call was given and has left
\* behind, the same signers and options
FormatAgain ==
  /\ pc = "formatted"
  /\ LET formatted == formatTransactionData(rawData, signers, formatOptions)
     IN /\ messages' = formatted.messages
        /\ signerSummary' = formatted.signerSummary
  /\ pc' = "repeated"
  /\ UNCHANGED <<configVars, fetchVars, rawData, totalTransactions, notifyVars,
                 diagnostics>>

FormatNext == FormatCall \/ FormatAgain

FormatSpec == FormatInit /\ [][FormatNext]_vars

----------------------------------------------------------------------------
(* The formatter's output, read back *)

Formatted == pc = "formatted"

RECURSIVE Offset(_, _)
\* The number of messages before those of data[w]
Offset(data, w) ==
  IF w = 1 THEN 0
  ELSE Offset(data, w - 1) + Len(data[w - 1].transactions) + 1

\* The (wallet, transaction) index pairs of the data
TxIndexes(data) ==
  { <<w, t>> \in (1..Len(data)) \X (1..3) : t <= Len(data[w].transactions) }

TxAt(data, wt) == data[wt[1]].transactions[wt[2]]

\* The block rendered for transaction t of wallet w
BlockAt(data, msgs, wt) == msgs[Offset(data, wt[1]) + wt[2]]

OwnersAt(data, wt) ==
  IF data[wt[1]].safeInfo = None THEN <<>> ELSE data[wt[1]].safeInfo[1].owners

\* The names of a list of addresses as the formatter writes them
NamesOf(addresses, signerInfos) ==
  [i \in 1..Len(addresses) |-> getSignerHandle(addresses[i], signerInfos, <<>>)]

----------------------------------------------------------------------------
(* Claims on the formatter *)

\* C1: every transaction resolves to exactly one tier, whatever the options:
\* ready iff C >= T, nearly-ready iff C < T and C >= ceil(0.7 T) (10 C >= 7 T),
\* needs-attention iff C < ceil(0.7 T); the header shows that tier when
\* showStatusIcon is set.  T=3,C=2 needs attention, and the first nearly-ready
\* count is 3 at T=4, 4 at T=5 and 7 at T=10.
C1_ReadinessTier ==
  Formatted =>
    \A wt \in TxIndexes(rawData) :
      LET c == TxAt(rawData, wt).signedCount
          t == TxAt(rawData, wt).confirmationsRequired
          tier == getStatusIcon(c, t)
      IN /\ tier \in {IconReady, IconPartial, IconAttention}
         /\ (tier = IconReady) <=> (c >= t)
         /\ (tier = IconPartial) <=> (c < t /\ 10 * c >= 7 * t)
         /\ (tier = IconAttention) <=> (10 * c < 7 * t)
         /\ (c = t) => tier = IconReady
         /\ (t = 3 /\ c = 2) => tier = IconAttention
         /\ (t = 4 /\ c = 3) \/ (t = 5 /\ c = 4) \/ (t = 10 /\ c = 7) => tier = IconPartial
         /\ (t = 4 /\ c = 2) \/ (t = 5 /\ c = 3) \/ (t = 10 /\ c = 6) => tier = IconAttention
         /\ Truthy(formatOptions.showStatusIcon)
              => BlockAt(rawData, messages, wt).statusIcon = tier

C1_Witness ==
  /\ Formatted
  /\ \E wt \in TxIndexes(rawData) :
       /\ TxAt(rawData, wt).signedCount = 7
       /\ TxAt(rawData, wt).confirmationsRequired = 10
       /\ BlockAt(rawData, messages, wt).statusIcon = IconPartial
       /\ formatOptions.showPendingSigner = "false"

\* The case of C2: a non-empty missingSigners, known owners, the unsigned
\* line enabled
MissingSignerCase(wt) ==
  /\ HasMissingSigners(TxAt(rawData, wt))
  /\ Len(OwnersAt(rawData, wt)) > 0
  /\ Truthy(formatOptions.showPendingSigner)

\* C2 as stated: the unsigned line lists missingSigners, each address
\* lower-cased, whatever the confirmations are.
C2_UnsignedLowerCased ==
  Formatted =>
    \A wt \in TxIndexes(rawData) :
      MissingSignerCase(wt) =>
        BlockAt(rawData, messages, wt).notSignedLine
          = Some(NamesOf(map(TxAt(rawData, wt).missingSigners[1], toLowerCase), signers))

\* C2 amended: the unsigned line lists missingSigners in order, each address
\* as missingSigners gives it (no lower-casing), none added and none dropped,
\* whatever the confirmations are.
C2_UnsignedVerbatim ==
  Formatted =>
    \A wt \in TxIndexes(rawData) :
      MissingSignerCase(wt) =>
        /\ SignerSets(TxAt(rawData, wt), OwnersAt(rawData, wt)).notSigned
             = TxAt(rawData, wt).missingSigners[1]
        /\ BlockAt(rawData, messages, wt).notSignedLine
             = Some(NamesOf(TxAt(rawData, wt).missingSigners[1], signers))

C2_Witness ==
  /\ Formatted
  /\ \E wt \in TxIndexes(rawData) :
       /\ MissingSignerCase(wt)
       /\ TxAt(rawData, wt).missingSigners[1] = <<AddrC, AddrD>>
       /\ Len(TxAt(rawData, wt).confirmations) > 0
       /\ BlockAt(rawData, messages, wt).notSignedLine
            = Some(<<shortenAddress(AddrC), shortenAddress(AddrD)>>)

\* C3: with missingSigners absent or empty and owners known, the signed and
\* the unsigned list split the owner list: together they are all the owners,
\* no owner is in both (also under case-insensitive comparison), and the
\* rendered lines are these two lists.
C3_ConfirmationPartition ==
  Formatted =>
    \A wt \in TxIndexes(rawData) :
      LET tx == TxAt(rawData, wt)
          owners == OwnersAt(rawData, wt)
          sets == SignerSets(tx, owners)
          block == BlockAt(rawData, messages, wt)
      IN (~HasMissingSigners(tx) /\ Len(owners) > 0) =>
           /\ Elems(sets.signed) \cup Elems(sets.notSigned) = Elems(owners)
           /\ Elems(sets.signed) \cap Elems(sets.notSigned) = {}
           /\ \A s \in Elems(sets.signed), u \in Elems(sets.notSigned) :
                ~compareAddresses(s, u)
           /\ Len(sets.signed) + Len(sets.notSigned) = Len(owners)
           /\ Truthy(formatOptions.showConfirmedSigner)
                => block.signedLine = SignerLine(sets.signed, signers)
           /\ Truthy(formatOptions.showPendingSigner)
                => block.notSignedLine = SignerLine(sets.notSigned, signers)

C3_Witness ==
  /\ Formatted
  /\ \E wt \in TxIndexes(rawData) :
       LET tx == TxAt(rawData, wt)
           block == BlockAt(rawData, messages, wt)
       IN /\ tx.missingSigners = None
          /\ OwnersAt(rawData, wt) = <<toLowerCase(AddrA), AddrA, AddrB>>
          /\ tx.confirmations = <<[owner |-> AddrA]>>
          /\ block.signedLine = Some(<<Alice, Alice>>)
          /\ block.notSignedLine = Some(<<Bob>>)

\* The number of transactions whose missingSigners names the address
TransactionsNaming(data, address) ==
  Cardinality({ wt \in TxIndexes(data) :
                  /\ TxAt(data, wt).missingSigners # None
                  /\ \E i \in 1..Len(TxAt(data, wt).missingSigners[1]) :
                       compareAddresses(TxAt(data, wt).missingSigners[1][i], address) })

SummaryAddresses == {toLowerCase(a) : a \in {AddrA, AddrB, AddrC, AddrD}}

\* C5 as stated: signerSummary[a] is the number of transactions whose
\* missingSigners contains a; an address in none has no entry.
C5_SummaryCountsTransactions ==
  Formatted =>
    \A a \in SummaryAddresses :
      LET entries == { i \in 1..Len(signerSummary) : signerSummary[i].address = a }
      IN IF TransactionsNaming(rawData, a) = 0
         THEN entries = {}
         ELSE /\ Cardinality(entries) = 1
              /\ \A i \in entries : signerSummary[i].count = TransactionsNaming(rawData, a)

\* The options with every absent key given its documented default
WithDocumentedDefaults(options) ==
  LET dflt(v, d) == IF v = "unset" THEN d ELSE v
  IN [showConfirmedSigner |-> dflt(options.showConfirmedSigner, "false"),
      showPendingSigner |-> dflt(options.showPendingSigner, "true"),
      showStatusIcon |-> dflt(options.showStatusIcon, "false"),
      showChainIcon |-> dflt(options.showChainIcon, "true"),
      showTxNote |-> dflt(options.showTxNote, "true")]

\* C6 as stated: formatting with keys left unset gives the messages that the
\* documented defaults, written out, give.
C6_UnsetMeansDefault ==
  Formatted =>
    messages = formatTransactionData(rawData, signers,
                                     WithDocumentedDefaults(formatOptions)).messages

WalletLines(data) == Offset(data, Len(data) + 1)

\* The part of C17 on the wallet output: wallets in the order of the data,
\* each wallet's blocks in the order of its transactions, then its URL line,
\* and then one summary line per entry of the signer summary, in its order
WalletOutputOrdered ==
  /\ Len(messages) >= WalletLines(rawData) + Len(signerSummary)
  /\ \A wt \in TxIndexes(rawData) :
       /\ BlockAt(rawData, messages, wt).kind = "transaction"
       /\ BlockAt(rawData, messages, wt).nonce = TxAt(rawData, wt).nonce
       /\ BlockAt(rawData, messages, wt).chainName
            = chainToUpperCase(rawData[wt[1]].chain)
  /\ \A w \in 1..Len(rawData) :
       LET url == messages[Offset(rawData, w) + Len(rawData[w].transactions) + 1]
       IN /\ url.kind = "safeUrl"
          /\ url.safeUrl = rawData[w].safeUrl
  /\ \A i \in 1..Len(signerSummary) :
       LET line == messages[WalletLines(rawData) + i]
       IN /\ line.kind = "summary"
          /\ line.signerName = getSignerHandle(signerSummary[i].address, signers, <<"@">>)
          /\ line.count = signerSummary[i].count

\* C17 as stated: the wallet output is ordered, and when there are summary
\* lines they are the last elements of the message sequence.
C17_SummaryLinesLast ==
  Formatted =>
    /\ WalletOutputOrdered
    /\ Len(signerSummary) > 0 =>
         /\ Len(messages) = WalletLines(rawData) + Len(signerSummary)
         /\ messages[Len(messages)].kind = "summary"

\* C17 amended: the wallet output is ordered, the summary lines follow all
\* wallet output, and one closing element (two newlines) follows them and
\* ends every message sequence, with or without summary lines.
C17_SummaryThenClosingElement ==
  Formatted =>
    /\ WalletOutputOrdered
    /\ Len(messages) = WalletLines(rawData) + Len(signerSummary) + 1
    /\ messages[Len(messages)] = EndLine
    /\ \A i \in 1..(Len(messages) - 1) : messages[i] # EndLine

C17_Witness ==
  /\ Formatted
  /\ Len(rawData) = 2
  /\ Len(rawData[1].transactions) = 2
  /\ rawData[2].transactions[1].nonce = 42
  /\ messages[1].nonce = 15
  /\ messages[2].nonce = 16
  /\ messages[3].kind = "safeUrl"
  /\ messages[4].nonce = 42
  /\ messages[5].kind = "safeUrl"
  /\ messages[6].kind = "summary"
  /\ messages[7].kind = "summary"
  /\ messages[8] = EndLine

----------------------------------------------------------------------------
(* safe-api.ts: the requests *)

\* (_, i) => ({ owner: `signed_${i}`, ... }) for i in 0 .. confirmationsSubmitted - 1
PlaceholderConfirmations(confirmationsSubmitted) ==
  [i \in 1..confirmationsSubmitted |->
     [owner |-> <<"s","i","g","n","e","d","_">> \o DecimalString(i - 1)]]

\* The transaction of a SafeClientTransaction, None for a null result
convertToEnhancedFormat(clientTx, safeAddress) ==
  IF clientTx.type # "TRANSACTION" \/ clientTx.transaction = None THEN None
  ELSE LET tx == clientTx.transaction[1]
           executionInfo == tx.executionInfo
       IN Some([nonce |-> executionInfo.nonce,
                confirmations |->
                  PlaceholderConfirmations(executionInfo.confirmationsSubmitted),
                confirmationsRequired |-> executionInfo.confirmationsRequired,
                id |-> tx.id,
                safe |-> safeAddress,
                missingSigners |->
                  Some([i \in 1..Len(executionInfo.missingSigners) |->
                          executionInfo.missingSigners[i].value]),
                signedCount |-> executionInfo.confirmationsSubmitted,
                note |-> None])

RECURSIVE ConvertAll(_, _)
\* .filter(type === 'TRANSACTION').map(convertToEnhancedFormat).filter(tx !== null)
ConvertAll(results, safeAddress) ==
  IF results = <<>> THEN <<>>
  ELSE LET converted == IF Head(results).type = "TRANSACTION"
                        THEN convertToEnhancedFormat(Head(results), safeAddress)
                        ELSE None
       IN converted \o ConvertAll(Tail(results), safeAddress)

\* The value fetchQueuedTransactions resolves to: response is None when the
\* request throws (the catch returns []), else the response's results
fetchQueuedTransactions(response, safeAddress) ==
  IF response = None THEN <<>> ELSE ConvertAll(response[1], safeAddress)

\* The value fetchSafeInfo resolves to: null when the request throws, else
\* { owners: data.owners || [], threshold: data.threshold || 1 }
fetchSafeInfo(response) ==
  IF response = None THEN None
  ELSE Some([owners |-> IF response[1].owners = None THEN <<>> ELSE response[1].owners[1],
             threshold |-> IF response[1].threshold = None \/ response[1].threshold[1] = 0
                           THEN 1 ELSE response[1].threshold[1]])

\* The value fetchTransactionDetails resolves to: null when the request
\* throws, else { note: data.note || undefined }
fetchTransactionDetails(response) ==
  IF response = None THEN None
  ELSE Some([note |-> IF response[1].note = "" THEN None ELSE Some(response[1].note)])

----------------------------------------------------------------------------
(* What the transaction service may answer *)

LabelItem == [type |-> "LABEL", transaction |-> None]

TransactionItem(id, nonce, submitted, required, missing) ==
  [type |-> "TRANSACTION",
   transaction |->
     Some([id |-> id,
           executionInfo |->
             [nonce |-> nonce,
              confirmationsRequired |-> required,
              confirmationsSubmitted |-> submitted,
              missingSigners |-> [i \in 1..Len(missing) |-> [value |-> missing[i]]]]])]

Item42 == TransactionItem("multisig_42", 42, 3, 3, <<>>)
Item15 == TransactionItem("multisig_15", 15, 1, 3, <<AddrB, AddrC>>)
Item16 == TransactionItem("multisig_16", 16, 2, 4, <<toLowerCase(AddrC)>>)

\* The answers to a queued-transaction request: None is a failed request
TransactionResponses ==
  { None, Some(<<>>), Some(<<LabelItem, Item42>>), Some(<<Item15, Item16>>) }

\* The answers to an ownership request
SafeInfoResponses ==
  { None, Some([owners |-> Some(<<AddrA, AddrB, AddrC>>), threshold |-> Some(3)]) }

\* The answers to a transaction-details request
DetailsResponses == { None, Some([note |-> ""]), Some([note |-> "memo"]) }

Wallets ==
  { [address |-> Safe1, chain |-> "mainnet"],
    [address |-> Safe2, chain |-> "base"] }

WalletsInTurn ==
  << [address |-> Safe1, chain |-> "mainnet"], [address |-> Safe2, chain |-> "base"] >>

\* The wallet lists of a configuration: no wallet, one, and so on up to
\* MaxSafes wallets, the two wallets taken in turn
SafeLists ==
  { [i \in 1..n |-> WalletsInTurn[((i - 1) % Len(WalletsInTurn)) + 1]] : n \in 0..MaxSafes }

Options(confirmed, pending, status, chainIcon, note) ==
  [showConfirmedSigner |-> confirmed, showPendingSigner |-> pending,
   showStatusIcon |-> status, showChainIcon |-> chainIcon, showTxNote |-> note]

\* The options of a run: every display option on but the notes, the empty
\* object, the signed line alone, the status icon alone, the chain icon with
\* the notes
RunFormatOptions ==
  { Options("true", "true", "true", "true", "false"),
    Options("unset", "unset", "unset", "unset", "unset"),
    Options("true", "false", "false", "false", "false"),
    Options("false", "false", "true", "false", "false"),
    Options("false", "false", "false", "true", "true") }

RunSigners ==
  <<[address |-> toLowerCase(AddrB), handle |-> Bob],
    [address |-> AddrA, handle |-> Alice]>>

ConsoleChannel == [type |-> "console", enabled |-> TRUE, botToken |-> "", chatId |-> ""]
WebhookChannel == [type |-> "webhook", enabled |-> TRUE, botToken |-> "", chatId |-> ""]

TelegramChannel ==
  [type |-> "telegram", enabled |-> TRUE, botToken |-> "token", chatId |-> "chat"]
TelegramNoToken ==
  [type |-> "telegram", enabled |-> TRUE, botToken |-> "", chatId |-> "chat"]
DisabledTelegram ==
  [type |-> "telegram", enabled |-> FALSE, botToken |-> "", chatId |-> ""]

TelegramNoChat ==
  [type |-> "telegram", enabled |-> TRUE, botToken |-> "token", chatId |-> ""]
DisabledConsole == [type |-> "console", enabled |-> FALSE, botToken |-> "", chatId |-> ""]
DisabledWebhook == [type |-> "webhook", enabled |-> FALSE, botToken |-> "", chatId |-> ""]

NotificationLists ==
  { <<>>, <<ConsoleChannel, WebhookChannel>> }

\* Channel lists with a disabled entry alone (the sample configuration's
\* chat-bot entry), with two channels that send a request, with a channel
\* that fails before sending, and with disabled entries of the other types
\* around a chat-bot entry without chat id
ChannelLists ==
  { <<DisabledTelegram>>,
    <<WebhookChannel, TelegramChannel>>,
    <<TelegramNoToken, ConsoleChannel, DisabledTelegram>>,
    <<DisabledConsole, TelegramNoChat, DisabledWebhook, WebhookChannel>> }

Safe3 == <<"0","x","7","c","6","8","C","4","2","D","e","6">>

\* Three wallets, two of them on one chain
ChainWallets ==
  Wallets \cup { [address |-> Safe3, chain |-> "mainnet"] }

\* Every list of as many of these wallets as there are, a wallet named more
\* than once included
ChainLists == UNION { [1..n -> ChainWallets] : n \in 0..Cardinality(ChainWallets) }

AllUnset == Options("unset", "unset", "unset", "unset", "unset")

AllOn == Options("true", "true", "true", "true", "true")

\* The configurations of a run, in four families:
\* (1) up to MaxSafes wallets under each of the options, without channels and
\*     with a console and a webhook channel, with and without debug;
\* (2) one wallet, the options all on or all absent, each of the channel
\*     lists, with and without debug;
\* (3) the lists of up to three of the three wallets, in every order, the
\*     options absent;
\* (4) the two wallets, every option on, a console and a webhook channel
Configurations ==
  [safes : SafeLists, formatOptions : RunFormatOptions,
   notifications : NotificationLists, debug : BOOLEAN]
  \cup
  [safes : { list \in SafeLists : Len(list) = 1 }, formatOptions : {AllOn, AllUnset},
   notifications : ChannelLists, debug : BOOLEAN]
  \cup
  [safes : ChainLists, formatOptions : {AllUnset},
   notifications : {<<>>}, debug : {FALSE}]
  \cup
  [safes : {WalletsInTurn}, formatOptions : {AllOn},
   notifications : {<<ConsoleChannel, WebhookChannel>>}, debug : {FALSE}]

----------------------------------------------------------------------------
(* index.ts: fetchAllQueuedTransactions and monitorSafeWalletQueue *)

RECURSIVE ChainsOf(_, _)
\* The keys of safesByChain in insertion order: each chain where first met
ChainsOf(safeList, seen) ==
  IF safeList = <<>> THEN <<>>
  ELSE IF Head(safeList).chain \in seen THEN ChainsOf(Tail(safeList), seen)
  ELSE <<Head(safeList).chain>> \o ChainsOf(Tail(safeList), seen \cup {Head(safeList).chain})

RECURSIVE WalletsOfChains(_, _)
WalletsOfChains(chains, safeList) ==
  IF chains = <<>> THEN <<>>
  ELSE LET onChain(safe) == safe.chain = Head(chains)
       IN filter(safeList, onChain) \o WalletsOfChains(Tail(chains), safeList)

\* The wallets taken as listed, without the grouping by chain
ProcessingOrderAsListed(safeList) == safeList

\* for (const [chain, addresses] of Object.entries(safesByChain)) for (const address ...
ProcessingOrder(safeList) == WalletsOfChains(ChainsOf(safeList, {}), safeList)

\* !Array.isArray(safes) || safes.length === 0
NoSafesNever(safeList) == FALSE

NoSafes(safeList) == Len(safeList) = 0

\* The ownership request decided by showPendingSigner alone
WantsSafeInfoPendingOnly(options) == Truthy(options.showPendingSigner)

\* options.showConfirmedSigner || options.showPendingSigner
WantsSafeInfo(options) ==
  Truthy(options.showConfirmedSigner) \/ Truthy(options.showPendingSigner)

\* if (transactions.length === 0) continue
SkipsWalletNever(walletTransactions) == FALSE

SkipsWallet(walletTransactions) == Len(walletTransactions) = 0

\* A failed wallet ends the loop
NextWalletAbort(i, failed, last) == IF failed THEN last + 1 ELSE i + 1

\* The loop's next wallet: a failure inside the loop body is caught there
\* (and in fetchQueuedTransactions), so the loop goes on
NextWallet(i, failed, last) == i + 1

Request(kind, target, chain) == [kind |-> kind, target |-> target, chain |-> chain]

\* What one wallet's requests answered; notes holds what its note requests
\* came to, in the order they were made
Outcome(failed, info, walletTransactions) ==
  [transactionsFailed |-> failed, safeInfo |-> info, count |-> Len(walletTransactions),
   notes |-> <<>>]

\* The request of one kind that wallet i (at place i of the queue) has in
\* flight; index is the transaction whose note is asked, 0 for the others
InFlight(kind, i, index) == [kind |-> kind, wallet |-> i, index |-> index]

\* `if (debug) console.log(...)` and the logger of createLogger(debug):
\* the lines written
Logged(flag, lines) == IF flag THEN lines ELSE 0

\* The aggregator going on as soon as the transaction list is in
JoinsTransactionsOnly(transactionsRequest, ownershipRequest) ==
  transactionsRequest = "done"

\* The aggregator going on as soon as either answer is in (Promise.race)
JoinsEither(transactionsRequest, ownershipRequest) ==
  transactionsRequest = "done" \/ ownershipRequest = "done"

\* await Promise.all([...]): resolved when both answers are in
Joins(transactionsRequest, ownershipRequest) ==
  transactionsRequest = "done" /\ ownershipRequest = "done"

\* The dispatcher called whenever channels are configured
CallsDispatcherWithoutTransactions(total, configs, flag) == Len(configs) > 0

\* The dispatcher call made the alternative of the debug branch
CallsDispatcherUnlessDebug(total, configs, flag) ==
  total > 0 /\ Len(configs) > 0 /\ ~flag

\* if (totalTransactions > 0 && notifications.length > 0) {...} else if (debug) {...}:
\* whether sendNotifications is called; debug only chooses what the else logs
CallsDispatcher(total, configs, flag) == total > 0 /\ Len(configs) > 0

\* One failed delivery abandoning the deliveries still under way
ChannelsAbandonedAfter(states, i, ok) ==
  [j \in 1..Len(states) |->
     IF j = i THEN (IF ok THEN "delivered" ELSE "failed")
     ELSE IF ~ok /\ states[j] = "pending" THEN "abandoned"
     ELSE states[j]]

\* The try/catch around each channel's delivery: the answer of channel i
\* settles channel i alone
ChannelsAfter(states, i, ok) ==
  [states EXCEPT ![i] = IF ok THEN "delivered" ELSE "failed"]

\* The dispatcher going on as soon as one delivery is over (Promise.race)
AnySettled(states) == \E i \in 1..Len(states) : states[i] # "pending"

\* await Promise.all(notificationPromises): every delivery is over
AllSettled(states) == \A i \in 1..Len(states) : states[i] # "pending"

\* The collected failures thrown to the caller and not caught there
AfterNotificationsRethrown(errorList) ==
  IF Len(errorList) > 0 THEN "threw" ELSE "returned"

\* sendNotifications reports its errors and resolves, and the call is inside
\* try/catch: the run goes on to its return statement
AfterNotifications(errorList) == "returned"

\* The notes requested for every wallet, whatever the option says
FetchesNotesAlways(options) == TRUE

\* if (options.showTxNote)
FetchesNotes(options) == Truthy(options.showTxNote)

\* The note requests of a wallet all issued together, before any answer
IssuedAtOnce(answered, walletTransactions) ==
  IF answered = 0 THEN [k \in 1..Len(walletTransactions) |-> k] ELSE <<>>

\* for (const tx of transactions) { ... await fetchTransactionDetails(tx.id, chainKey) ... }:
\* the transactions whose note is requested once `answered` note requests of
\* the wallet have answered or failed
IssuedAfter(answered, walletTransactions) ==
  IF answered < Len(walletTransactions) THEN <<answered + 1>> ELSE <<>>

\* fetchTransactionDetails(tx.id, chainKey) for the transactions at indexes
NoteRequests(indexes, walletTransactions, chain) ==
  [k \in 1..Len(indexes) |-> Request("details", walletTransactions[indexes[k]].id, chain)]

\* What a note request came to: it failed, it answered without a note, it
\* answered with one
NoteAnswer(response) ==
  IF response = None THEN "failed"
  ELSE IF response[1].note = "" THEN "empty" ELSE "noted"

\* CLI entry, `track` action: process.exit(1) without safes, else the call
TrackAction ==
  /\ pc = "track"
  /\ pc' = IF ~(Len(safes) > 0) THEN "exit" ELSE "monitor"
  /\ UNCHANGED <<configVars, fetchVars, rawData, resultVars, notifyVars, diagnostics>>

\* monitorSafeWalletQueue up to the loop of fetchAllQueuedTransactions
MonitorStart ==
  /\ pc = "monitor"
  /\ IF NoSafes(safes)
     THEN /\ pc' = "threw"
          /\ diagnostics' = diagnostics + Logged(debug, 2)
          /\ UNCHANGED <<queue, idx>>
     ELSE /\ pc' = "wallet"
          /\ queue' = ProcessingOrder(safes)
          /\ idx' = 1
          /\ diagnostics' = diagnostics + Logged(debug, 3)
  /\ UNCHANGED <<configVars, walletVars, outcomes, requestLog, rawData, resultVars,
                 notifyVars>>

\* Promise.all([fetchQueuedTransactions(...), fetchSafeInfo(...) or null]):
\* both requests are issued before either is awaited
IssueRequests ==
  /\ pc = "wallet"
  /\ idx <= Len(queue)
  /\ txReq' = "pending"
  /\ fetchedTransactions' = <<>>
  /\ fetchedSafeInfo' = None
  /\ noteIdx' = 0
  /\ IF WantsSafeInfo(formatOptions)
     THEN /\ infoReq' = "pending"
          /\ requestLog' = requestLog
               \o <<Request("transactions", queue[idx].address, queue[idx].chain),
                    Request("safeInfo", queue[idx].address, queue[idx].chain)>>
          /\ inFlight' = inFlight \cup {InFlight("transactions", idx, 0),
                                        InFlight("safeInfo", idx, 0)}
     ELSE /\ infoReq' = "done"
          /\ requestLog' = Append(requestLog,
               Request("transactions", queue[idx].address, queue[idx].chain))
          /\ inFlight' = inFlight \cup {InFlight("transactions", idx, 0)}
  /\ outcomes' = Append(outcomes, Outcome(FALSE, "none", <<>>))
  /\ pc' = "await"
  /\ diagnostics' = diagnostics + Logged(debug, 1)
  /\ UNCHANGED <<configVars, queue, idx, rawData, resultVars, notifyVars>>

\* The queued-transaction request answers or fails
TransactionsAnswer ==
  /\ pc = "await"
  /\ txReq = "pending"
  /\ \E response \in TransactionResponses :
       /\ fetchedTransactions' = fetchQueuedTransactions(response, queue[idx].address)
       /\ outcomes' = [outcomes EXCEPT ![idx].transactionsFailed = (response = None)]
       /\ diagnostics' = diagnostics + Logged(debug, IF response = None THEN 0 ELSE 1)
  /\ txReq' = "done"
  /\ inFlight' = inFlight \ {InFlight("transactions", idx, 0)}
  /\ UNCHANGED <<pc, configVars, queue, idx, infoReq, fetchedSafeInfo, noteIdx,
                 requestLog, rawData, resultVars, notifyVars>>

\* The ownership request answers or fails
SafeInfoAnswer ==
  /\ pc = "await"
  /\ infoReq = "pending"
  /\ \E response \in SafeInfoResponses :
       /\ fetchedSafeInfo' = fetchSafeInfo(response)
       /\ outcomes' = [outcomes EXCEPT ![idx].safeInfo =
                         IF response = None THEN "failed" ELSE "answered"]
  /\ infoReq' = "done"
  /\ inFlight' = inFlight \ {InFlight("safeInfo", idx, 0)}
  /\ UNCHANGED <<pc, configVars, queue, idx, txReq, fetchedTransactions, noteIdx,
                 requestLog, rawData, resultVars, notifyVars, diagnostics>>

\* results.push({ chain, address, transactions, safeInfo, safeUrl }) and the
\* next iteration
PushResult(walletTransactions) ==
  /\ rawData' = Append(rawData,
       [chain |-> queue[idx].chain,
        address |-> queue[idx].address,
        transactions |-> walletTransactions,
        safeInfo |-> fetchedSafeInfo,
        safeUrl |-> generateSafeUrl(queue[idx].address, queue[idx].chain)])
  /\ idx' = NextWallet(idx, outcomes[idx].transactionsFailed, Len(queue))
  /\ pc' = "wallet"
  /\ diagnostics' = diagnostics + Logged(debug, 1)

\* Both answers are in: the empty check, then the first note request or the
\* result record
Joined ==
  /\ pc = "await"
  /\ Joins(txReq, infoReq)
  /\ outcomes' = [outcomes EXCEPT ![idx].count = Len(fetchedTransactions)]
  /\ IF SkipsWallet(fetchedTransactions)
     THEN /\ idx' = NextWallet(idx, outcomes[idx].transactionsFailed, Len(queue))
          /\ pc' = "wallet"
          /\ diagnostics' = diagnostics + Logged(debug, 1)
          /\ UNCHANGED <<noteIdx, inFlight, requestLog, rawData>>
     ELSE IF FetchesNotes(formatOptions) /\ Len(fetchedTransactions) > 0
     THEN LET issued == IssuedAfter(0, fetchedTransactions)
          IN /\ noteIdx' = 1
             /\ requestLog' = requestLog
                  \o NoteRequests(issued, fetchedTransactions, queue[idx].chain)
             /\ inFlight' = inFlight
                  \cup {InFlight("details", idx, issued[k]) : k \in 1..Len(issued)}
          /\ pc' = "note"
          /\ UNCHANGED <<idx, rawData, diagnostics>>
     ELSE /\ PushResult(fetchedTransactions)
          /\ UNCHANGED <<noteIdx, inFlight, requestLog>>
  /\ UNCHANGED <<configVars, queue, txReq, infoReq, fetchedTransactions,
                 fetchedSafeInfo, resultVars, notifyVars>>

\* The note request of transaction noteIdx answers or fails; then the next
\* transaction's note is requested, or the result record is pushed
DetailsAnswer ==
  /\ pc = "note"
  /\ \E response \in DetailsResponses :
       LET txDetails == fetchTransactionDetails(response)
           noted == IF txDetails # None /\ txDetails[1].note # None
                    THEN [fetchedTransactions EXCEPT ![noteIdx].note = txDetails[1].note]
                    ELSE fetchedTransactions
           issued == IssuedAfter(noteIdx, fetchedTransactions)
       IN /\ fetchedTransactions' = noted
          /\ outcomes' = [outcomes EXCEPT ![idx].notes = Append(@, NoteAnswer(response))]
          /\ IF noteIdx < Len(fetchedTransactions)
             THEN /\ noteIdx' = noteIdx + 1
                  /\ requestLog' = requestLog
                       \o NoteRequests(issued, fetchedTransactions, queue[idx].chain)
                  /\ inFlight' = (inFlight \ {InFlight("details", idx, noteIdx)})
                       \cup {InFlight("details", idx, issued[k]) : k \in 1..Len(issued)}
                  /\ UNCHANGED <<pc, idx, rawData, diagnostics>>
             ELSE /\ PushResult(noted)
                  /\ noteIdx' = 0
                  /\ inFlight' = inFlight \ {InFlight("details", idx, noteIdx)}
                  /\ UNCHANGED requestLog
  /\ UNCHANGED <<configVars, queue, txReq, infoReq, fetchedSafeInfo,
                 resultVars, notifyVars>>

\* The records counted, not their transactions
SumTransactionsCountingRecords(data) == Len(data)

RECURSIVE SumTransactions(_)
\* transactionData.reduce((sum, data) => sum + data.transactions.length, 0)
SumTransactions(data) ==
  IF data = <<>> THEN 0
  ELSE Len(Head(data).transactions) + SumTransactions(Tail(data))

\* The chat-bot sender looking at its token and chat id before the enabled flag
StartChannelCredentialsFirst(config) ==
  CASE config.type = "console" ->
         IF config.enabled THEN "delivered" ELSE "skipped"
    [] config.type = "telegram" ->
         IF config.botToken = "" \/ config.chatId = "" THEN "failed"
         ELSE IF ~config.enabled THEN "skipped"
         ELSE "pending"
    [] config.type = "webhook" ->
         IF ~config.enabled THEN "skipped" ELSE "pending"
    [] OTHER -> "unknown"

\* What one channel of sendNotifications does before its first await
StartChannel(config) ==
  CASE config.type = "console" ->
         IF config.enabled THEN "delivered" ELSE "skipped"
    [] config.type = "telegram" ->
         IF ~config.enabled THEN "skipped"
         ELSE IF config.botToken = "" \/ config.chatId = "" THEN "failed"
         ELSE "pending"
    [] config.type = "webhook" ->
         IF ~config.enabled THEN "skipped" ELSE "pending"
    [] OTHER -> "unknown"

\* The separator of messages.join('\n')
Newline == [kind |-> "newline"]

RECURSIVE join(_, _)
\* Array.prototype.join: the elements with the separator between each two
join(list, separator) ==
  IF list = <<>> THEN <<>>
  ELSE IF Len(list) = 1 THEN list
  ELSE <<Head(list), separator>> \o join(Tail(list), separator)

\* The lines handed over one after the other, nothing between them
finalMessageUnseparated(lines) == lines

\* const finalMessage = messages.join('\n')
finalMessage(lines) == join(lines, Newline)

\* The senders of the switch in sendNotifications
ChannelTypes == {"console", "telegram", "webhook"}

\* case 'console': await sendConsoleNotification(config, message) and the
\* other cases: the message the sender of config is called with, None for a
\* type without sender
SenderMessage(config, message) ==
  IF config.type \in ChannelTypes THEN Some(message) ELSE None

\* The request one sender makes before its first await: telegram and webhook
\* post { text: message, ... } once they are past their checks
PostOf(config, i, message) ==
  IF StartChannel(config) = "pending"
  THEN <<[channel |-> i, type |-> config.type, text |-> message]>>
  ELSE <<>>

RECURSIVE PostsOf(_, _, _)
\* The requests of configs.map(async config => ...), config i onwards
PostsOf(configs, i, message) ==
  IF i > Len(configs) THEN <<>>
  ELSE PostOf(configs[i], i, message) \o PostsOf(configs, i + 1, message)

\* The loop is over: the total, the formatting, and the call of
\* sendNotifications when there is something to send and someone to send to;
\* flag is the debug flag the statement reads
SummariseWith(flag) ==
  /\ pc = "wallet"
  /\ idx > Len(queue)
  /\ LET formatted == formatTransactionData(rawData, signers, formatOptions)
         total == SumTransactions(rawData)
         started == [i \in 1..Len(notifications) |-> StartChannel(notifications[i])]
         isFailed(i) == started[i] = "failed"
     IN /\ totalTransactions' = total
        /\ messages' = formatted.messages
        /\ signerSummary' = formatted.signerSummary
        /\ IF CallsDispatcher(total, notifications, flag)
           THEN /\ channels' = started
                /\ errors' = filter([i \in 1..Len(notifications) |-> i], isFailed)
                /\ dispatched' = Some(finalMessage(formatted.messages))
                /\ received' = [i \in 1..Len(notifications) |->
                                  SenderMessage(notifications[i],
                                                finalMessage(formatted.messages))]
                /\ posted' = PostsOf(notifications, 1, finalMessage(formatted.messages))
                /\ pc' = "notify"
           ELSE /\ pc' = "returned"
                /\ UNCHANGED notifyVars
  /\ diagnostics' = diagnostics + Logged(debug, 2)
  /\ UNCHANGED <<configVars, fetchVars, rawData>>

Summarise == SummariseWith(debug)

\* A channel's request answers or fails
ChannelAnswer ==
  /\ pc = "notify"
  /\ \E i \in 1..Len(channels) :
       /\ channels[i] = "pending"
       /\ \E ok \in BOOLEAN :
            /\ channels' = ChannelsAfter(channels, i, ok)
            /\ errors' = IF ok THEN errors ELSE Append(errors, i)
  /\ UNCHANGED <<dispatched, received, posted>>
  /\ UNCHANGED <<pc, configVars, fetchVars, rawData, resultVars, diagnostics>>

\* await Promise.all(notificationPromises), the report, and the result
NotificationsDone ==
  /\ pc = "notify"
  /\ AllSettled(channels)
  /\ pc' = AfterNotifications(errors)
  /\ UNCHANGED <<configVars, fetchVars, rawData, resultVars, notifyVars, diagnostics>>

Init ==
  /\ pc \in {"track", "monitor"}
  /\ \E config \in Configurations :
       /\ safes = config.safes
       /\ formatOptions = config.formatOptions
       /\ notifications = config.notifications
       /\ debug = config.debug
  /\ signers = RunSigners
  /\ queue = <<>>
  /\ idx = 0
  /\ txReq = "none"
  /\ infoReq = "none"
  /\ fetchedTransactions = <<>>
  /\ fetchedSafeInfo = None
  /\ noteIdx = 0
  /\ inFlight = {}
  /\ diagnostics = 0
  /\ outcomes = <<>>
  /\ requestLog = <<>>
  /\ rawData = <<>>
  /\ totalTransactions = 0
  /\ messages = <<>>
  /\ signerSummary = <<>>
  /\ channels = <<>>
  /\ errors = <<>>
  /\ dispatched = None
  /\ received = <<>>
  /\ posted = <<>>

Next ==
  \/ TrackAction
  \/ MonitorStart
  \/ IssueRequests
  \/ TransactionsAnswer
  \/ SafeInfoAnswer
  \/ Joined
  \/ DetailsAnswer
  \/ Summarise
  \/ ChannelAnswer
  \/ NotificationsDone

Spec == Init /\ [][Next]_vars

----------------------------------------------------------------------------
(* The run, read back *)

\* The wallets whose iteration of the loop is over
Completed == { i \in 1..Len(outcomes) : i < idx }

\* The completed wallets that had at least one transaction, up to wallet i
KeptUpTo(i) == { j \in Completed : j <= i /\ outcomes[j].count > 0 }

\* The result record of completed wallet i, which had transactions
RecordOf(i) == rawData[Cardinality(KeptUpTo(i))]

LoopOver == pc \in {"notify", "returned"}

\* The requests of one kind, in the order issued
RequestsOf(kind) ==
  LET isKind(r) == r.kind = kind
  IN filter(requestLog, isKind)

----------------------------------------------------------------------------
(* Claims on the run *)

\* C4 as stated: one wallet, owners [A,B,C], one queued transaction with nonce
\* 42, 3 of 3 confirmations submitted and no missing signer, every option on:
\* the block shows 3/3 and the ready tier, its signed line lists A, B and C,
\* and it has no unsigned line.
C4_FullySignedListsAllOwners ==
  ( /\ pc = "returned"
    /\ Len(safes) = 1
    /\ formatOptions = AllOn
    /\ Len(rawData) = 1
    /\ rawData[1].safeInfo # None
    /\ rawData[1].safeInfo[1].owners = <<AddrA, AddrB, AddrC>>
    /\ Len(rawData[1].transactions) = 1
    /\ rawData[1].transactions[1].nonce = 42
    /\ rawData[1].transactions[1].signedCount = 3
    /\ rawData[1].transactions[1].confirmationsRequired = 3
    /\ rawData[1].transactions[1].missingSigners = Some(<<>>) )
  => /\ messages[1].confirmed = 3
     /\ messages[1].required = 3
     /\ messages[1].statusIcon = IconReady
     /\ messages[1].signedLine = Some(NamesOf(<<AddrA, AddrB, AddrC>>, signers))
     /\ messages[1].notSignedLine = None

\* C7: no record of rawData is without transactions, and rawData holds one
\* record per completed wallet whose list was not empty, none for the others.
C7_NoEmptyWalletInRawData ==
  /\ \A r \in 1..Len(rawData) : Len(rawData[r].transactions) >= 1
  /\ Len(rawData) = Cardinality(KeptUpTo(Len(outcomes)))
  /\ \A i \in Completed :
       outcomes[i].count > 0 =>
         /\ RecordOf(i).address = queue[i].address
         /\ RecordOf(i).chain = queue[i].chain
         /\ Len(RecordOf(i).transactions) = outcomes[i].count

C7_Witness ==
  /\ pc = "returned"
  /\ Len(queue) = 2
  /\ outcomes[1].count = 0
  /\ ~outcomes[1].transactionsFailed
  /\ outcomes[2].count = 2
  /\ Len(rawData) = 1
  /\ rawData[1].address = queue[2].address

\* C8: a wallet whose queued-transaction request failed is not in the result,
\* and the run goes on: every wallet of the list is fetched, in order, and
\* every wallet that had transactions has its record.
C8_FailedWalletSkippedRunGoesOn ==
  /\ \A i \in Completed : outcomes[i].transactionsFailed => outcomes[i].count = 0
  /\ Len(rawData) = Cardinality(KeptUpTo(Len(outcomes)))
  /\ LoopOver =>
       /\ Len(outcomes) = Len(queue)
       /\ Len(RequestsOf("transactions")) = Len(queue)
       /\ \A i \in 1..Len(queue) :
            /\ RequestsOf("transactions")[i].target = queue[i].address
            /\ RequestsOf("transactions")[i].chain = queue[i].chain
            /\ outcomes[i].count > 0 => RecordOf(i).address = queue[i].address

C8_Witness ==
  /\ pc = "returned"
  /\ Len(queue) = 2
  /\ outcomes[1].transactionsFailed
  /\ outcomes[2].count = 1
  /\ Len(rawData) = 1
  /\ rawData[1].address = queue[2].address
  /\ queue[1].address # queue[2].address

\* The case of C9: the ownership request of completed wallet i failed and
\* its list has at least one transaction
OwnershipFailed(i) == outcomes[i].safeInfo = "failed" /\ outcomes[i].count > 0

\* C9 as stated: the wallet is kept with all its transactions and no
\* walletInfo, and every block shows the count and the tier and has neither
\* a signed nor an unsigned line.
C9_OwnershipFailureShowsTier ==
  \A i \in Completed :
    OwnershipFailed(i) =>
      /\ RecordOf(i).safeInfo = None
      /\ Len(RecordOf(i).transactions) = outcomes[i].count
      /\ LoopOver =>
           \A t \in 1..outcomes[i].count :
             LET tx == RecordOf(i).transactions[t]
                 block == BlockAt(rawData, messages, <<Cardinality(KeptUpTo(i)), t>>)
             IN /\ block.confirmed = tx.signedCount
                /\ block.required = tx.confirmationsRequired
                /\ block.statusIcon = getStatusIcon(tx.signedCount, tx.confirmationsRequired)
                /\ block.signedLine = None
                /\ block.notSignedLine = None

\* C9 amended: the wallet is kept with all its transactions and no
\* walletInfo, and every block shows the count, shows the tier when
\* showStatusIcon is set (no tier otherwise), and has neither a signed nor an
\* unsigned line.
C9_OwnershipFailureKeepsHeader ==
  \A i \in Completed :
    OwnershipFailed(i) =>
      /\ RecordOf(i).safeInfo = None
      /\ Len(RecordOf(i).transactions) = outcomes[i].count
      /\ LoopOver =>
           \A t \in 1..outcomes[i].count :
             LET tx == RecordOf(i).transactions[t]
                 block == BlockAt(rawData, messages, <<Cardinality(KeptUpTo(i)), t>>)
             IN /\ block.confirmed = tx.signedCount
                /\ block.required = tx.confirmationsRequired
                /\ block.statusIcon =
                     IF Truthy(formatOptions.showStatusIcon)
                     THEN getStatusIcon(tx.signedCount, tx.confirmationsRequired)
                     ELSE NoIcon
                /\ block.signedLine = None
                /\ block.notSignedLine = None

C9_Witness ==
  /\ pc = "returned"
  /\ formatOptions = AllOn
  /\ Len(queue) = 1
  /\ OwnershipFailed(1)
  /\ Len(rawData[1].transactions) = 2
  /\ rawData[1].transactions[1].missingSigners = Some(<<AddrB, AddrC>>)
  /\ messages[1].statusIcon = IconAttention
  /\ messages[1].notSignedLine = None

\* C10: a run with no wallet ends in the fatal configuration error (the
\* thrown Error, or the CLI's exit), and issues no request and no
\* notification.
C10_NoWalletsIsFatal ==
  safes = <<>> =>
    /\ pc \in {"track", "monitor", "exit", "threw"}
    /\ requestLog = <<>>
    /\ channels = <<>>
    /\ rawData = <<>>

C10_Witness == safes = <<>> /\ pc = "threw" /\ Len(notifications) > 0

----------------------------------------------------------------------------
(* The run under fair scheduling: the program's own steps are taken when    *)
(* they can be (the event loop runs every continuation that is ready), and  *)
(* every request in flight is eventually answered or fails.                 *)

\* The step Summarise as it shows on pc: where the loop is over Summarise is
\* the one action that can be taken, and it always changes pc
LoopExit == pc = "wallet" /\ idx > Len(queue) /\ pc' \in {"notify", "returned"}

Fairness ==
  /\ WF_vars(TrackAction \/ MonitorStart \/ IssueRequests \/ Joined \/ NotificationsDone)
  /\ WF_pc(LoopExit)
  /\ WF_vars(TransactionsAnswer)
  /\ WF_vars(SafeInfoAnswer)
  /\ WF_vars(DetailsAnswer)
  /\ WF_vars(ChannelAnswer)

LiveSpec == Init /\ [][Next]_vars /\ Fairness

\* sendNotifications has been called (with a non-empty list)
Dispatched == channels # <<>>

\* C11: a run over a non-empty wallet list never ends in an error, whatever
\* requests and deliveries fail, and it eventually returns its result: the
\* messages (at least the closing element), the total, the summary, rawData.
C11_RunReturns ==
  /\ [](safes # <<>> => pc \notin {"exit", "threw"})
  /\ [](pc = "returned" =>
          /\ Len(messages) >= 1
          /\ totalTransactions = SumTransactions(rawData))
  /\ (safes # <<>>) ~> (pc = "returned")

C11_Witness ==
  /\ pc = "returned"
  /\ formatOptions = AllOn
  /\ Len(queue) = 2
  /\ outcomes[1].transactionsFailed
  /\ outcomes[2].safeInfo = "failed"
  /\ Len(rawData) = 1
  /\ rawData[1].transactions[1].note = None
  /\ channels = <<"delivered", "failed">>
  /\ errors = <<2>>

\* C12 as stated: the dispatcher is called only when totalTransactions > 0
\* and at least one channel configuration is enabled.
C12_DispatchNeedsEnabledChannel ==
  Dispatched =>
    /\ totalTransactions > 0
    /\ \E i \in 1..Len(notifications) : notifications[i].enabled

\* C12 amended: the dispatcher is called exactly when totalTransactions > 0
\* and the channel list is not empty, whether or not any of its entries is
\* enabled; an entry that is not enabled is skipped inside the dispatcher, so
\* a list without an enabled entry is dispatched to and receives nothing.
C12_DispatchNeedsChannelList ==
  /\ ~LoopOver => ~Dispatched
  /\ pc = "notify" => Dispatched
  /\ LoopOver => (Dispatched <=> (totalTransactions > 0 /\ Len(notifications) > 0))
  /\ Dispatched =>
       \A i \in 1..Len(notifications) :
         ~notifications[i].enabled => channels[i] = "skipped"

C12_Witness ==
  /\ pc = "returned"
  /\ notifications = <<DisabledTelegram>>
  /\ totalTransactions = 2
  /\ channels = <<"skipped">>
  /\ errors = <<>>

\* C13: in a dispatch every enabled channel's delivery is attempted and ends
\* by itself, delivered or failed, whatever happens to the others; the
\* failures collected are exactly the channels that failed, each once; and
\* the dispatcher returns to the run, which returns its result.
C13_ChannelsIndependent ==
  /\ Dispatched =>
       /\ Len(channels) = Len(notifications)
       /\ \A i \in 1..Len(channels) :
            /\ channels[i] \in {"pending", "delivered", "failed", "skipped"}
            /\ notifications[i].enabled => channels[i] # "skipped"
            /\ channels[i] = "failed" <=> includes(errors, i)
       /\ \A m, n \in 1..Len(errors) : m # n => errors[m] # errors[n]
       /\ pc # "notify" =>
            /\ pc = "returned"
            /\ \A i \in 1..Len(channels) :
                 notifications[i].enabled => channels[i] \in {"delivered", "failed"}
  /\ pc = "notify" => Dispatched

C13_Witness ==
  /\ pc = "returned"
  /\ notifications = <<WebhookChannel, TelegramChannel>>
  /\ channels = <<"failed", "delivered">>
  /\ errors = <<1>>

\* A step of the run as it is taken when the debug flag has the other value
FlippedNext ==
  \/ TrackAction
  \/ MonitorStart
  \/ IssueRequests
  \/ TransactionsAnswer
  \/ SafeInfoAnswer
  \/ Joined
  \/ DetailsAnswer
  \/ SummariseWith(~debug)
  \/ ChannelAnswer
  \/ NotificationsDone

FirstOfChain(p) ==
  CHOOSE q \in 1..Len(safes) :
    /\ safes[q].chain = safes[p].chain
    /\ \A o \in 1..(q - 1) : safes[o].chain # safes[p].chain

\* Wallet q of the list is processed before wallet p: its chain is met
\* earlier, or it is on the same chain and listed earlier
ProcessedBefore(q, p) ==
  \/ FirstOfChain(q) < FirstOfChain(p)
  \/ FirstOfChain(q) = FirstOfChain(p) /\ q < p

\* The place of wallet p of the list in the processing order
PlaceOf(p) == 1 + Cardinality({ q \in 1..Len(safes) : ProcessedBefore(q, p) })

\* C16: the processing order takes the chains in the order they are first
\* met in the wallet list and the wallets of a chain in their listed order,
\* and the results are in that order, the dropped wallets left out.
C16_ResultsInProcessingOrder ==
  pc \notin {"track", "monitor", "exit", "threw"} =>
    /\ Len(queue) = Len(safes)
    /\ \A p \in 1..Len(safes) : queue[PlaceOf(p)] = safes[p]
    /\ Len(rawData) = Cardinality(KeptUpTo(Len(outcomes)))
    /\ \A i \in Completed :
         outcomes[i].count > 0 =>
           /\ RecordOf(i).address = queue[i].address
           /\ RecordOf(i).chain = queue[i].chain
    /\ \A r \in 1..Len(rawData) :
         \E i \in Completed : outcomes[i].count > 0 /\ Cardinality(KeptUpTo(i)) = r

C16_Witness ==
  /\ pc = "returned"
  /\ safes = <<[address |-> Safe1, chain |-> "mainnet"],
               [address |-> Safe2, chain |-> "base"],
               [address |-> Safe3, chain |-> "mainnet"]>>
  /\ Len(rawData) = 3
  /\ rawData[1].address = Safe1
  /\ rawData[2].address = Safe3
  /\ rawData[3].address = Safe2

\* C18: every request in flight belongs to the wallet being processed, and
\* when the aggregator turns to the next wallet (or to the result) no request
\* is in flight.
C18_OneWalletAtATime ==
  /\ \A r \in inFlight : r.wallet = idx
  /\ pc # "await" /\ pc # "note" => inFlight = {}
  /\ \A r \in inFlight : r.kind = "details" <=> pc = "note"

C18_Witness ==
  /\ pc = "await"
  /\ idx = 2
  /\ formatOptions = AllOn
  /\ inFlight = {InFlight("transactions", 2, 0), InFlight("safeInfo", 2, 0)}
  /\ Len(rawData) = 1
  /\ Len(RequestsOf("details")) = 2

\* C19: while an answer of the wallet is awaited both its requests have been
\* issued (the ownership request when the options want it), and the empty
\* check, the note requests and the result record come only when both have
\* answered, whichever answered first.
C19_BothIssuedThenJoined ==
  /\ pc = "await" =>
       LET n == Len(requestLog)
           wallet == queue[idx]
       IN IF WantsSafeInfo(formatOptions)
          THEN /\ n >= 2
               /\ requestLog[n - 1] = Request("transactions", wallet.address, wallet.chain)
               /\ requestLog[n] = Request("safeInfo", wallet.address, wallet.chain)
          ELSE /\ n >= 1
               /\ requestLog[n] = Request("transactions", wallet.address, wallet.chain)
  /\ pc = "note" =>
       /\ txReq = "done"
       /\ infoReq = "done"
       /\ \A r \in inFlight : r.kind = "details"
  /\ \A i \in Completed :
       /\ InFlight("transactions", i, 0) \notin inFlight
       /\ InFlight("safeInfo", i, 0) \notin inFlight
       /\ WantsSafeInfo(formatOptions) <=> outcomes[i].safeInfo # "none"

C19_Witness ==
  /\ pc = "await"
  /\ txReq = "pending"
  /\ infoReq = "done"
  /\ outcomes[idx].safeInfo = "answered"
  /\ inFlight = {InFlight("transactions", idx, 0)}

\* C20: with showConfirmedSigner or showPendingSigner true, every wallet's
\* transaction request comes with an ownership request for the same wallet;
\* with neither true no ownership request is issued and no result record has
\* a safeInfo.
C20_OwnershipRequestIffSignerOption ==
  IF Truthy(formatOptions.showConfirmedSigner) \/ Truthy(formatOptions.showPendingSigner)
  THEN /\ Len(RequestsOf("safeInfo")) = Len(RequestsOf("transactions"))
       /\ \A i \in 1..Len(RequestsOf("safeInfo")) :
            /\ RequestsOf("safeInfo")[i].target = RequestsOf("transactions")[i].target
            /\ RequestsOf("safeInfo")[i].chain = RequestsOf("transactions")[i].chain
  ELSE /\ RequestsOf("safeInfo") = <<>>
       /\ \A r \in 1..Len(rawData) : rawData[r].safeInfo = None

C20_Witness ==
  /\ pc = "returned"
  /\ formatOptions = Options("false", "false", "true", "false", "false")
  /\ Len(rawData) = 2
  /\ RequestsOf("safeInfo") = <<>>
  /\ Len(requestLog) = 2

----------------------------------------------------------------------------
(* Claims on the note requests *)

RECURSIVE NoteRequestsFor(_)
\* One note request per transaction of the records of data, in order
NoteRequestsFor(data) ==
  IF data = <<>> THEN <<>>
  ELSE [t \in 1..Len(Head(data).transactions) |->
          Request("details", Head(data).transactions[t].id, Head(data).chain)]
       \o NoteRequestsFor(Tail(data))

\* The transactions with their notes taken away
WithoutNotes(transactions) ==
  [t \in 1..Len(transactions) |-> [transactions[t] EXCEPT !.note = None]]

\* C21: with showTxNote set, every wallet with a non-empty list gets exactly
\* one note request per transaction; a note request that fails leaves that
\* transaction's note absent and nothing else changes: the wallet's record
\* holds every transaction as it was fetched, and the later notes are still
\* asked. With showTxNote not set no note request is issued.
C21_OneNoteRequestPerTransaction ==
  /\ formatOptions.showTxNote # "true" => RequestsOf("details") = <<>>
  /\ \A i \in Completed :
       /\ Len(outcomes[i].notes) =
            IF formatOptions.showTxNote = "true" THEN outcomes[i].count ELSE 0
       /\ outcomes[i].count > 0 =>
            /\ Len(RecordOf(i).transactions) = outcomes[i].count
            /\ \E response \in TransactionResponses :
                 WithoutNotes(RecordOf(i).transactions)
                   = fetchQueuedTransactions(response, queue[i].address)
            /\ \A t \in 1..Len(outcomes[i].notes) :
                 RecordOf(i).transactions[t].note =
                   IF outcomes[i].notes[t] = "noted" THEN Some("memo") ELSE None
  /\ LoopOver /\ formatOptions.showTxNote = "true" =>
       RequestsOf("details") = NoteRequestsFor(rawData)

\* A wallet with two transactions: the first note request failed, the second
\* brought a note
C21_Witness ==
  /\ pc = "returned"
  /\ formatOptions.showTxNote = "true"
  /\ Len(rawData) = 1
  /\ outcomes[1].notes = <<"failed", "noted">>
  /\ rawData[1].transactions[1].note = None
  /\ rawData[1].transactions[2].note = Some("memo")
  /\ Len(RequestsOf("details")) = 2

\* The note requests now outstanding
NotesInFlight == { r \in inFlight : r.kind = "details" }

\* C22: the note requests of a wallet run one at a time, in transaction
\* order: while the notes of a wallet are fetched exactly one note request is
\* outstanding, that of the transaction after those whose request has
\* answered or failed, and the requests issued so far are those of the first
\* transactions of the list, in order; at no moment are two note requests
\* outstanding.
C22_NoteRequestsOneAtATime ==
  /\ Cardinality(NotesInFlight) <= 1
  /\ pc = "note" =>
       /\ noteIdx \in 1..Len(fetchedTransactions)
       /\ NotesInFlight = {InFlight("details", idx, noteIdx)}
       /\ Len(outcomes[idx].notes) = noteIdx - 1
       /\ LET issued == RequestsOf("details")
              before == Len(issued) - noteIdx
          IN /\ before >= 0
             /\ \A t \in 1..noteIdx :
                  issued[before + t]
                    = Request("details", fetchedTransactions[t].id, queue[idx].chain)
  /\ pc # "note" => NotesInFlight = {}

\* The second note request of a wallet is outstanding after the first failed
C22_Witness ==
  /\ pc = "note"
  /\ noteIdx = 2
  /\ outcomes[idx].notes = <<"failed">>
  /\ inFlight = {InFlight("details", idx, 2)}
  /\ Len(RequestsOf("details")) = 2

----------------------------------------------------------------------------
(* Claims on the deliveries *)

\* C23: every channel's delivery is started before any is awaited, and the
\* run returns only after every delivery has finished or failed, whatever
\* the order in which the channels answer: from the call of the dispatcher
\* on every configured channel has a delivery, started or already over, and
\* in a run that has returned no delivery is still under way.
C23_AllStartedThenAllAwaited ==
  Dispatched =>
    /\ Len(channels) = Len(notifications)
    /\ \A i \in 1..Len(channels) :
         /\ channels[i] \in {"pending", "delivered", "failed", "skipped"}
         /\ pc = "returned" => channels[i] \in {"delivered", "failed", "skipped"}
    /\ pc \in {"notify", "returned"}

\* Two channels, the second answering before the first, both failing: the
\* run has returned after both
C23_Witness ==
  /\ pc = "returned"
  /\ notifications = <<WebhookChannel, TelegramChannel>>
  /\ channels = <<"failed", "failed">>
  /\ errors = <<2, 1>>

\* C24: the message the dispatcher is called with is the result's messages
\* joined by newline (each message in its place, one separator between each
\* two and none at either end), and every channel of the dispatch is handed
\* that same text, which is also the text of every request made.
C24_ChannelsGetJoinedMessages ==
  Dispatched =>
    /\ dispatched # None
    /\ LET text == dispatched[1]
       IN /\ Len(text) = 2 * Len(messages) - 1
          /\ \A k \in 1..Len(messages) : text[2 * k - 1] = messages[k]
          /\ \A k \in 1..(Len(messages) - 1) : text[2 * k] = Newline
          /\ Len(received) = Len(notifications)
          /\ \A i \in 1..Len(received) : received[i] = Some(text)
          /\ \A k \in 1..Len(posted) : posted[k].text = text

\* Three channels of one dispatch, one of them a console, each handed the
\* text of a result of three messages
C24_Witness ==
  /\ pc = "returned"
  /\ Len(notifications) = 3
  /\ Len(messages) = 3
  /\ Len(dispatched[1]) = 5
  /\ received = <<dispatched, dispatched, dispatched>>

----------------------------------------------------------------------------
(* Claims on the counts and the names *)

\* The records of the service's answers that stand for a transaction
SourceRecords ==
  { item \in UNION { Elems(response[1]) : response \in TransactionResponses \ {None} } :
      item.type = "TRANSACTION" }

\* The record of the service's answer that transaction tx was made from
SourceOf(tx) == CHOOSE item \in SourceRecords : item.transaction[1].id = tx.id

\* C25: every transaction of the result carries as signedCount the
\* submitted-confirmation count of the record it was made from and as
\* confirmationsRequired that record's required count, and once the messages
\* are written the header of its block shows these two counts, whatever its
\* confirmations list holds and whichever names the signed and unsigned
\* lines give.
C25_HeaderShowsSourceCounts ==
  \A wt \in TxIndexes(rawData) :
    LET tx == TxAt(rawData, wt)
        info == SourceOf(tx).transaction[1].executionInfo
    IN /\ \E item \in SourceRecords : item.transaction[1].id = tx.id
       /\ tx.signedCount = info.confirmationsSubmitted
       /\ tx.confirmationsRequired = info.confirmationsRequired
       /\ LoopOver =>
            /\ BlockAt(rawData, messages, wt).kind = "transaction"
            /\ BlockAt(rawData, messages, wt).nonce = info.nonce
            /\ BlockAt(rawData, messages, wt).confirmed = info.confirmationsSubmitted
            /\ BlockAt(rawData, messages, wt).required = info.confirmationsRequired

\* A header of 2/4 over a signed line of two names and an unsigned line of
\* one, and in the same result a header of 3/3 over no signed line and an
\* unsigned line of three names
C25_Witness ==
  /\ pc = "returned"
  /\ \E wt \in TxIndexes(rawData) :
       /\ BlockAt(rawData, messages, wt).confirmed = 2
       /\ BlockAt(rawData, messages, wt).required = 4
       /\ BlockAt(rawData, messages, wt).signedLine # None
       /\ Len(BlockAt(rawData, messages, wt).signedLine[1]) = 2
       /\ BlockAt(rawData, messages, wt).notSignedLine # None
       /\ Len(BlockAt(rawData, messages, wt).notSignedLine[1]) = 1
  /\ \E wt \in TxIndexes(rawData) :
       /\ BlockAt(rawData, messages, wt).confirmed = 3
       /\ BlockAt(rawData, messages, wt).required = 3
       /\ BlockAt(rawData, messages, wt).signedLine = None
       /\ BlockAt(rawData, messages, wt).notSignedLine # None
       /\ Len(BlockAt(rawData, messages, wt).notSignedLine[1]) = 3

\* Two strings equal up to the case of their letters
SameIgnoringCase(a, b) ==
  /\ Len(a) = Len(b)
  /\ \A i \in 1..Len(a) :
       \/ a[i] = b[i]
       \/ \E k \in 1..26 : {a[i], b[i]} = {UpperAlphabet[k], LowerAlphabet[k]}

\* name is what the claim says is shown for address: the handle of the first
\* alias that matches it up to case (after the prefix of the line), else its
\* first 6 characters, three dots and its last 4 characters when it has 10
\* characters or more, else the address itself
RenderedAs(name, address, prefix) ==
  LET matching == { i \in 1..Len(signers) : SameIgnoringCase(signers[i].address, address) }
  IN IF matching # {}
     THEN \E i \in matching :
            /\ \A j \in matching : i <= j
            /\ name = prefix \o signers[i].handle
     ELSE IF Len(address) >= 10
     THEN /\ Len(name) = 13
          /\ \A k \in 1..6 : name[k] = address[k]
          /\ \A k \in 7..9 : name[k] = "."
          /\ \A k \in 1..4 : name[9 + k] = address[Len(address) - 4 + k]
     ELSE name = address

\* line names the addresses of list, one for one and in order
LineRenders(line, list) ==
  line # None =>
    /\ Len(line[1]) = Len(list)
    /\ \A k \in 1..Len(list) : RenderedAs(line[1][k], list[k], <<>>)

\* C26: every address the formatter writes, in a signed line, an unsigned
\* line or a summary line, is written by alias lookup: the handle of the
\* first alias matching it case-insensitively; without a match its first 6
\* characters, an ellipsis and its last 4 characters when it has 10 or more
\* characters, and the address itself when it has fewer.
C26_AddressRendering ==
  Formatted =>
    /\ \A wt \in TxIndexes(rawData) :
         LET sets == SignerSets(TxAt(rawData, wt), OwnersAt(rawData, wt))
         IN /\ LineRenders(BlockAt(rawData, messages, wt).signedLine, sets.signed)
            /\ LineRenders(BlockAt(rawData, messages, wt).notSignedLine, sets.notSigned)
    /\ \A k \in 1..Len(signerSummary) :
         LET line == messages[Len(messages) - 1 - Len(signerSummary) + k]
         IN /\ line.kind = "summary"
            /\ RenderedAs(line.signerName, signerSummary[k].address, <<"@">>)

\* One unsigned line with a 10-character address cut to its ends and a
\* 9-character address in full, and a signed line with the handle of the
\* first of two aliases that match an owner written in another case
C26_Witness ==
  /\ Formatted
  /\ Len(signers) = 3
  /\ \E wt \in TxIndexes(rawData) :
       /\ BlockAt(rawData, messages, wt).notSignedLine
            = Some(<< <<"0","x","6","f","F","6",".",".",".","6","6","6","F">>, NineAddr >>)
       /\ BlockAt(rawData, messages, wt).signedLine = Some(<<Bob>>)
       /\ OwnersAt(rawData, wt) = <<NineAddr, AddrB, TenAddr>>

----------------------------------------------------------------------------
(* Claims on the result *)

\* C27: once the run has its result, totalTransactions is the number of
\* transactions held by the records of rawData, all records together, and it
\* is 0 exactly when rawData holds no record.
C27_TotalIsSumOfRecords ==
  LoopOver =>
    /\ totalTransactions = Cardinality(TxIndexes(rawData))
    /\ \A w \in 1..Len(rawData) : Len(rawData[w].transactions) \in 1..3
    /\ totalTransactions = 0 <=> rawData = <<>>

\* Two records, of one transaction and of two: a total of three
C27_Witness ==
  /\ pc = "returned"
  /\ Len(rawData) = 2
  /\ Len(rawData[1].transactions) = 1
  /\ Len(rawData[2].transactions) = 2
  /\ totalTransactions = 3

----------------------------------------------------------------------------
(* Claims on the signer summary and the signer sets *)

\* The missingSigners of the data and nothing else: per wallet, per
\* transaction, the list (empty when absent)
MissingOnly(data) ==
  [w \in 1..Len(data) |->
     [t \in 1..Len(data[w].transactions) |->
        IF data[w].transactions[t].missingSigners = None THEN <<>>
        ELSE data[w].transactions[t].missingSigners[1]]]

\* The places (wallet, transaction, position) of the addresses of such lists
Places(missing) ==
  { p \in (1..Len(missing)) \X (1..3) \X (1..3) :
      /\ p[2] <= Len(missing[p[1]])
      /\ p[3] <= Len(missing[p[1]][p[2]]) }

LowerAt(missing, p) == toLowerCase(missing[p[1]][p[2]][p[3]])

\* Place p comes before place q in reading order
Earlier(p, q) ==
  \/ p[1] < q[1]
  \/ p[1] = q[1] /\ p[2] < q[2]
  \/ p[1] = q[1] /\ p[2] = q[2] /\ p[3] < q[3]

\* summary is the tally of the lists: one entry per lower-cased address, its
\* count the number of places that hold it, the entries in the order of the
\* addresses' first places
TallyOf(summary, missing) ==
  /\ { summary[i].address : i \in 1..Len(summary) }
       = { LowerAt(missing, p) : p \in Places(missing) }
  /\ \A i, j \in 1..Len(summary) : summary[i].address = summary[j].address => i = j
  /\ \A i \in 1..Len(summary) :
       summary[i].count
         = Cardinality({ p \in Places(missing) : LowerAt(missing, p) = summary[i].address })
  /\ \A i, j \in 1..Len(summary) :
       i < j =>
         \E p \in Places(missing) :
           /\ LowerAt(missing, p) = summary[i].address
           /\ \A q \in Places(missing) :
                LowerAt(missing, q) = summary[j].address => Earlier(p, q)

\* C28: the signer summary is determined by the transactions' missingSigners
\* alone: for every value of the display options and with or without a
\* wallet's ownership data it is the tally of these lists.
C28_SummaryFromMissingSignersOnly ==
  Formatted => TallyOf(signerSummary, MissingOnly(rawData))

\* A signer counted in the summary although the unsigned line is off, and
\* another although the wallet's ownership data is absent: no unsigned line
\* is written
C28_Witness ==
  /\ Formatted
  /\ formatOptions.showPendingSigner = "false"
  /\ Len(rawData) = 2
  /\ rawData[1].safeInfo = None
  /\ rawData[2].safeInfo # None
  /\ signerSummary = <<[address |-> toLowerCase(AddrB), count |-> 2],
                       [address |-> toLowerCase(AddrC), count |-> 3]>>
  /\ \A wt \in TxIndexes(rawData) : BlockAt(rawData, messages, wt).notSignedLine = None

\* The case of C29: a non-empty missingSigners and a non-empty owner list
MissingSignerPath(wt) ==
  /\ TxAt(rawData, wt).missingSigners # None
  /\ TxAt(rawData, wt).missingSigners[1] # <<>>
  /\ OwnersAt(rawData, wt) # <<>>

\* Address a is in list, up to the case of its letters
NamedIn(list, a) == \E k \in 1..Len(list) : SameIgnoringCase(list[k], a)

\* C29: on the missing-signer path no address is both in the signed and in
\* the unsigned set, compared case-insensitively; every member of the signed
\* set is an owner as the owner list writes it; every owner is in the signed
\* set or named, up to case, in the unsigned set.
C29_MissingPathSetsDisjointAndCover ==
  Formatted =>
    \A wt \in TxIndexes(rawData) :
      MissingSignerPath(wt) =>
        LET sets == SignerSets(TxAt(rawData, wt), OwnersAt(rawData, wt))
            owners == OwnersAt(rawData, wt)
        IN /\ \A i \in 1..Len(sets.signed) : ~NamedIn(sets.notSigned, sets.signed[i])
           /\ \A i \in 1..Len(sets.signed) : sets.signed[i] \in Elems(owners)
           /\ \A i \in 1..Len(owners) :
                owners[i] \in Elems(sets.signed) \/ NamedIn(sets.notSigned, owners[i])
           /\ Truthy(formatOptions.showConfirmedSigner) =>
                BlockAt(rawData, messages, wt).signedLine
                  = IF sets.signed = <<>> THEN None ELSE Some(NamesOf(sets.signed, signers))

\* Owners A, B, C with C and the non-owner D missing: A and B signed, and the
\* unsigned set holds an address that owns nothing
C29_Witness ==
  /\ Formatted
  /\ \E wt \in TxIndexes(rawData) :
       /\ MissingSignerPath(wt)
       /\ OwnersAt(rawData, wt) = <<AddrA, AddrB, AddrC>>
       /\ SignerSets(TxAt(rawData, wt), OwnersAt(rawData, wt))
            = [signed |-> <<AddrA, AddrB>>, notSigned |-> <<AddrC, AddrD>>]
       /\ ~NamedIn(OwnersAt(rawData, wt), AddrD)
       /\ BlockAt(rawData, messages, wt).notSignedLine # None

----------------------------------------------------------------------------
(* Claims on the channel configurations *)

\* The channels that have sent a request
Posting == { posted[k].channel : k \in 1..Len(posted) }

\* C30: a channel configuration with enabled = false is never delivered to
\* (its delivery is skipped and it sends no request) and is never among the
\* failures, whatever its type, token and chat id; an enabled chat-bot
\* channel without token or without chat id is among the failures from the
\* start and sends no request. The requests sent are those of the other
\* chat-bot and webhook channels.
C30_DisabledSkippedMissingCredentialsFail ==
  Dispatched =>
    \A i \in 1..Len(notifications) :
      LET config == notifications[i]
          incomplete == config.type = "telegram"
                          /\ (config.botToken = "" \/ config.chatId = "")
      IN /\ ~config.enabled =>
              /\ channels[i] = "skipped"
              /\ i \notin Elems(errors)
              /\ i \notin Posting
         /\ config.enabled /\ incomplete =>
              /\ channels[i] = "failed"
              /\ i \in Elems(errors)
              /\ i \notin Posting
         /\ i \in Posting <=>
              config.enabled /\ ~incomplete /\ config.type \in {"telegram", "webhook"}

\* Disabled console and webhook entries skipped around an enabled chat-bot
\* entry without chat id, which failed; the one request sent is that of the
\* enabled webhook
C30_Witness ==
  /\ pc = "returned"
  /\ notifications = <<DisabledConsole, TelegramNoChat, DisabledWebhook, WebhookChannel>>
  /\ channels = <<"skipped", "failed", "skipped", "delivered">>
  /\ errors = <<2>>
  /\ Posting = {4}

============================================================================
